---- MODULE Spec2Model ----
(***************************************************************************)
(* Model of the interview agent of src/main.py: the InterviewAgent object  *)
(* (questions, max_followups_per_question, q_index,                        *)
(* current_question_followups, is_started), its constructor, its two entry *)
(* points get_response and agent_turn, and the helpers they call.  The     *)
(* language model behind self.llm is the environment: every call to it     *)
(* either returns a text or raises.                                        *)
(*                                                                         *)
(* Texts are TLA+ strings; str.strip and str.upper are computed character  *)
(* by character.  An Optional value is a record [is_none, val].            *)
(***************************************************************************)
EXTENDS Integers, Sequences, FiniteSets, TLC

VARIABLES
    pc,                          \* "new": no object yet; "ready": constructed; "failed": __init__ raised
    questions_arg,               \* the questions argument given to __init__
    max_arg,                     \* the max_followups_per_question argument given to __init__
    questions,                   \* self.questions
    max_followups_per_question,  \* self.max_followups_per_question
    q_index,                     \* self.q_index
    current_question_followups,  \* self.current_question_followups
    is_started,                  \* self.is_started
    call,                        \* the last entry-point call: its operation, arguments and llm traffic
    ret,                         \* what the last entry-point call returned (or that it raised)
    calls,                       \* number of entry-point calls made on the object
    asked,                       \* the prepared questions returned so far, in order
    fu_since,                    \* follow-ups returned since the last prepared question was returned
    fu_total,                    \* follow-ups returned since construction
    closed,                      \* the closing line has been returned by some call
    after_close,                 \* calls made after the one that first returned the closing line
    scen,                        \* number of leading calls that followed the two-question scenario
    probe,                       \* the last direct call of a helper: its arguments and result
    heap,                        \* the list objects: the module's QUESTIONS and the caller's list
    sessions,                    \* InterviewAgent objects whose questions field is a reference into heap
    edits,                       \* number of in-place changes made to list objects
    messages,                    \* st.session_state.messages
    interview_started            \* st.session_state.interview_started

vars == <<pc, questions_arg, max_arg, questions, max_followups_per_question,
          q_index, current_question_followups, is_started, call, ret, calls,
          asked, fu_since, fu_total, closed, after_close, scen, probe,
          heap, sessions, edits, messages, interview_started>>

agent == <<questions_arg, max_arg, questions, max_followups_per_question,
           q_index, current_question_followups, is_started>>
observed ==
    <<call, ret, calls, asked, fu_since, fu_total, closed, after_close, scen>>
refs == <<heap, sessions, edits>>
app == <<messages, interview_started>>

-----------------------------------------------------------------------------
(* Bounds *)

MaxBudget == 2      \* largest max_followups_per_question tried
ExtraCalls == 2     \* calls allowed after the closing line
MaxHistory == 6     \* longest conversation history given to a helper called directly
MaxEdits == 2       \* in-place changes made to list objects
MaxPrompts == 3     \* messages the candidate sends between two resets of the app

-----------------------------------------------------------------------------
(* Program constants *)

QUESTIONS ==
    << "Tell me about yourself.",
       "Why are you interested in this role?",
       "Describe a time you overcame a challenge.",
       "What is your greatest strength?",
       "What questions do you have for us?" >>

MinResponseLen == 20
HistoryWindow == 4
closing == "Thank you for your time! We'll be in touch."
EmptyFollowupFallback == "Can you give me a specific example?"
ErrorFollowupFallback == "Could you elaborate on that with more details?"

-----------------------------------------------------------------------------
(* Python values *)

Some(v) == [is_none |-> FALSE, val |-> v]
NoneStr == [is_none |-> TRUE, val |-> ""]
NoneList == [is_none |-> TRUE, val |-> <<>>]

\* bool(x) for an Optional string or list: None and the empty value are falsy
Truthy(o) == ~o.is_none /\ Len(o.val) > 0

Whitespace == {" ", "\t", "\n", "\r", "\f"}

RECURSIVE lstrip(_)
lstrip(s) ==
    IF Len(s) > 0 /\ SubSeq(s, 1, 1) \in Whitespace
    THEN lstrip(SubSeq(s, 2, Len(s)))
    ELSE s

RECURSIVE rstrip(_)
rstrip(s) ==
    IF Len(s) > 0 /\ SubSeq(s, Len(s), Len(s)) \in Whitespace
    THEN rstrip(SubSeq(s, 1, Len(s) - 1))
    ELSE s

strip(s) == rstrip(lstrip(s))

UpperChar(c) ==
    CASE c = "a" -> "A" [] c = "b" -> "B" [] c = "c" -> "C" [] c = "d" -> "D"
      [] c = "e" -> "E" [] c = "f" -> "F" [] c = "g" -> "G" [] c = "h" -> "H"
      [] c = "i" -> "I" [] c = "j" -> "J" [] c = "k" -> "K" [] c = "l" -> "L"
      [] c = "m" -> "M" [] c = "n" -> "N" [] c = "o" -> "O" [] c = "p" -> "P"
      [] c = "q" -> "Q" [] c = "r" -> "R" [] c = "s" -> "S" [] c = "t" -> "T"
      [] c = "u" -> "U" [] c = "v" -> "V" [] c = "w" -> "W" [] c = "x" -> "X"
      [] c = "y" -> "Y" [] c = "z" -> "Z" [] OTHER -> c

RECURSIVE upper(_)
upper(s) ==
    IF Len(s) = 0 THEN s
    ELSE UpperChar(SubSeq(s, 1, 1)) \o upper(SubSeq(s, 2, Len(s)))

-----------------------------------------------------------------------------
(* The environment: candidate replies, histories, language-model outcomes *)

Msg(role, content) == [role |-> role, content |-> content]

Replies ==
    { "ok", "still ok", "done",
      "   Nineteen chars text  \n",          \* 25 characters, 19 once trimmed
      "Twenty characters ok" }               \* 20 characters

\* A conversation of n messages that ends with the candidate's reply r:
\* interviewer and candidate alternate, as the app and the command-line loop
\* build it, and every earlier message has a text of its own.
Dialogue(n, r) ==
    [i \in 1 .. n |->
        IF i = n THEN Msg("user", r)
        ELSE IF (n - i) % 2 = 1
             THEN Msg("assistant", QUESTIONS[1 + (i % Len(QUESTIONS))])
             ELSE Msg("user", IF i % 4 < 2 THEN "I work in tech."
                              ELSE "I am a software engineer.")]

Conversation(r) == Dialogue(2, r)

\* histories given to the entry points
Histories == { <<>> } \cup { Conversation(r) : r \in Replies }

\* histories given to a helper called directly; the last one opens with a
\* message whose role is neither assistant nor user
HelperHistories ==
    { <<>> } \cup { Dialogue(n, r) : n \in 1 .. MaxHistory, r \in Replies }
    \cup { <<Msg("system", "Be brief.")>> \o Dialogue(2, "ok") }

LlmText(t) == [status |-> "ok", content |-> t]
LlmError == [status |-> "error", content |-> ""]
LlmUnused == [status |-> "unused", content |-> ""]

JudgeOutcomes ==
    { LlmText("YES"), LlmText("NO"), LlmText(" yes\n"), LlmText("Maybe"),
      LlmText(""), LlmError }

GenOutcomes ==
    { LlmText("What specific challenges did you face?"),
      LlmText("  What was the result?\n"),
      LlmText(""), LlmText("   "), LlmError }

\* the generator outcomes tried in whole sessions: a text, a blank text, a failure
SessionGenOutcomes ==
    { LlmText("What specific challenges did you face?"), LlmText("   "), LlmError }

-----------------------------------------------------------------------------
(* InterviewAgent: the helpers.  Each operator takes the fields the method  *)
(* reads and the outcome of the llm call it may make, and returns the       *)
(* method's return value with the fields it wrote and the outcome it used.  *)

\* Variant: list[:n]
LastN_first(s, n) == SubSeq(s, 1, IF Len(s) > n THEN n ELSE Len(s))

\* list[-n:]
LastN(s, n) == SubSeq(s, IF Len(s) > n THEN Len(s) - n + 1 ELSE 1, Len(s))

\* Variant: q_index is advanced even when no question is left.
_next_prepared_question_past_end(qs, qi, cqf) ==
    IF qi < Len(qs)
    THEN [ret |-> Some(qs[qi + 1]),
          q_index |-> qi + 1,
          current_question_followups |-> 0]
    ELSE [ret |-> NoneStr,
          q_index |-> qi + 1,
          current_question_followups |-> cqf]

\* Variant: q_index is not advanced.
_next_prepared_question_no_increment(qs, qi, cqf) ==
    IF qi < Len(qs)
    THEN [ret |-> Some(qs[qi + 1]),
          q_index |-> qi,
          current_question_followups |-> 0]
    ELSE [ret |-> NoneStr,
          q_index |-> qi,
          current_question_followups |-> cqf]

\* Variant: the follow-up counter is not reset for the new question.
_next_prepared_question_no_reset(qs, qi, cqf) ==
    IF qi < Len(qs)
    THEN [ret |-> Some(qs[qi + 1]),
          q_index |-> qi + 1,
          current_question_followups |-> cqf]
    ELSE [ret |-> NoneStr,
          q_index |-> qi,
          current_question_followups |-> cqf]

_next_prepared_question(qs, qi, cqf) ==
    IF qi < Len(qs)
    THEN [ret |-> Some(qs[qi + 1]),
          q_index |-> qi + 1,
          current_question_followups |-> 0]
    ELSE [ret |-> NoneStr,
          q_index |-> qi,
          current_question_followups |-> cqf]

\* Variant: the verdict is compared without upper-casing it.
_should_ask_followup_case_sensitive(candidate_response, j) ==
    IF Len(strip(candidate_response)) < MinResponseLen
    THEN [ret |-> TRUE, judge |-> LlmUnused]
    ELSE IF j.status = "ok"
         THEN [ret |-> strip(j.content) = "YES", judge |-> j]
         ELSE [ret |-> TRUE, judge |-> j]

\* Variant: every verdict other than NO asks for a follow-up.
_should_ask_followup_not_no(candidate_response, j) ==
    IF Len(strip(candidate_response)) < MinResponseLen
    THEN [ret |-> TRUE, judge |-> LlmUnused]
    ELSE IF j.status = "ok"
         THEN [ret |-> upper(strip(j.content)) # "NO", judge |-> j]
         ELSE [ret |-> TRUE, judge |-> j]

\* Variant: the length test is made on the untrimmed response.
_should_ask_followup_untrimmed(candidate_response, j) ==
    IF Len(candidate_response) < MinResponseLen
    THEN [ret |-> TRUE, judge |-> LlmUnused]
    ELSE IF j.status = "ok"
         THEN [ret |-> upper(strip(j.content)) = "YES", judge |-> j]
         ELSE [ret |-> TRUE, judge |-> j]

\* Variant: a failed evaluation means no follow-up.
_should_ask_followup_error_false(candidate_response, j) ==
    IF Len(strip(candidate_response)) < MinResponseLen
    THEN [ret |-> TRUE, judge |-> LlmUnused]
    ELSE IF j.status = "ok"
         THEN [ret |-> upper(strip(j.content)) = "YES", judge |-> j]
         ELSE [ret |-> FALSE, judge |-> j]

\* j is what self.llm would answer to the evaluation prompt
_should_ask_followup(candidate_response, j) ==
    IF Len(strip(candidate_response)) < MinResponseLen
    THEN [ret |-> TRUE, judge |-> LlmUnused]
    ELSE IF j.status = "ok"
         THEN [ret |-> upper(strip(j.content)) = "YES", judge |-> j]
         ELSE [ret |-> TRUE, judge |-> j]           \* except Exception

RECURSIVE history_text(_)
history_text(msgs) ==
    IF Len(msgs) = 0 THEN ""
    ELSE (IF msgs[1].role = "assistant" THEN "Interviewer" ELSE "Candidate")
         \o ": " \o msgs[1].content \o "\n"
         \o history_text(Tail(msgs))

\* Variant: the two fallback texts are exchanged.
_generate_followup_question_swapped(conversation_history, g) ==
    LET Result(followup) ==
            [ret |-> IF g.status = "ok"
                     THEN IF Len(followup) > 0 THEN followup
                          ELSE ErrorFollowupFallback
                     ELSE EmptyFollowupFallback,
             gen |-> g,
             \* the list is only read (a slice is a new list): it is left as given
             conversation_history |-> conversation_history]
    IN  Result(strip(g.content))

\* g is what self.llm would answer to the generation prompt
_generate_followup_question(conversation_history, g) ==
    LET Result(followup) ==
            [ret |-> IF g.status = "ok"
                     THEN IF Len(followup) > 0 THEN followup
                          ELSE EmptyFollowupFallback
                     ELSE ErrorFollowupFallback,            \* except Exception
             gen |-> g,
             \* the list is only read (a slice is a new list): it is left as given
             conversation_history |-> conversation_history]
    IN  Result(strip(g.content))

\* the HumanMessage _generate_followup_question sends to self.llm
followup_prompt(conversation_history) ==
    "Recent conversation:\n"
    \o history_text(LastN(conversation_history, HistoryWindow))
    \o "\n\nWhat follow-up question should I ask?"

NoFollowup ==
    [raised |-> FALSE, ret |-> NoneStr, judge |-> LlmUnused, gen |-> LlmUnused]

_generate_followup(conversation_history, j, g) ==
    LET Generated(ask, q) ==
            [raised |-> FALSE, ret |-> Some(q.ret), judge |-> ask.judge,
             gen |-> q.gen, conversation_history |-> q.conversation_history]
        Decided(ask) ==
            IF ask.ret
            THEN Generated(ask, _generate_followup_question(conversation_history, g))
            ELSE [raised |-> FALSE, ret |-> NoneStr, judge |-> ask.judge,
                  gen |-> LlmUnused,
                  conversation_history |-> conversation_history]
    IN  IF Len(conversation_history) = 0
        THEN \* conversation_history[-1] raises IndexError
             [raised |-> TRUE, ret |-> NoneStr, judge |-> LlmUnused,
              gen |-> LlmUnused, conversation_history |-> conversation_history]
        ELSE \* last_user_msg = conversation_history[-1]['content']
             Decided(_should_ask_followup(
                         conversation_history[Len(conversation_history)].content, j))

\* Variant: a follow-up is considered while the counter is at most the budget.
agent_turn_budget_inclusive(qs, m, qi, cqf, conversation_history, j, g) ==
    LET Closing(follow, prepared) ==
            [kind |-> "closing", line |-> closing,
             q_index |-> prepared.q_index,
             current_question_followups |-> prepared.current_question_followups,
             judge |-> follow.judge, gen |-> follow.gen]
        Prepared(follow, prepared) ==
            IF ~prepared.ret.is_none
            THEN [kind |-> "prepared", line |-> prepared.ret.val,
                  q_index |-> prepared.q_index,
                  current_question_followups |-> prepared.current_question_followups,
                  judge |-> follow.judge, gen |-> follow.gen]
            ELSE Closing(follow, prepared)
        Considered(follow) ==
            IF follow.raised
            THEN [kind |-> "raise", line |-> "", q_index |-> qi,
                  current_question_followups |-> cqf,
                  judge |-> follow.judge, gen |-> follow.gen]
            ELSE IF Truthy(follow.ret)
            THEN [kind |-> "followup", line |-> follow.ret.val, q_index |-> qi,
                  current_question_followups |-> cqf + 1,
                  judge |-> follow.judge, gen |-> follow.gen]
            ELSE Prepared(follow, _next_prepared_question(qs, qi, cqf))
    IN  IF Truthy(conversation_history) /\ cqf <= m
        THEN Considered(_generate_followup(conversation_history.val, j, g))
        ELSE Prepared(NoFollowup, _next_prepared_question(qs, qi, cqf))

\* Variant: a returned follow-up is not counted.
agent_turn_no_count(qs, m, qi, cqf, conversation_history, j, g) ==
    LET Closing(follow, prepared) ==
            [kind |-> "closing", line |-> closing,
             q_index |-> prepared.q_index,
             current_question_followups |-> prepared.current_question_followups,
             judge |-> follow.judge, gen |-> follow.gen]
        Prepared(follow, prepared) ==
            IF ~prepared.ret.is_none
            THEN [kind |-> "prepared", line |-> prepared.ret.val,
                  q_index |-> prepared.q_index,
                  current_question_followups |-> prepared.current_question_followups,
                  judge |-> follow.judge, gen |-> follow.gen]
            ELSE Closing(follow, prepared)
        Considered(follow) ==
            IF follow.raised
            THEN [kind |-> "raise", line |-> "", q_index |-> qi,
                  current_question_followups |-> cqf,
                  judge |-> follow.judge, gen |-> follow.gen]
            ELSE IF Truthy(follow.ret)
            THEN [kind |-> "followup", line |-> follow.ret.val, q_index |-> qi,
                  current_question_followups |-> cqf,
                  judge |-> follow.judge, gen |-> follow.gen]
            ELSE Prepared(follow, _next_prepared_question(qs, qi, cqf))
    IN  IF Truthy(conversation_history) /\ cqf < m
        THEN Considered(_generate_followup(conversation_history.val, j, g))
        ELSE Prepared(NoFollowup, _next_prepared_question(qs, qi, cqf))

\* The value returned by agent_turn(conversation_history), and the fields it
\* leaves, on an object whose fields are qs, m, qi, cqf.
agent_turn(qs, m, qi, cqf, conversation_history, j, g) ==
    LET Closing(follow, prepared) ==
            [kind |-> "closing", line |-> closing,
             q_index |-> prepared.q_index,
             current_question_followups |-> prepared.current_question_followups,
             judge |-> follow.judge, gen |-> follow.gen]
        Prepared(follow, prepared) ==
            IF ~prepared.ret.is_none
            THEN [kind |-> "prepared", line |-> prepared.ret.val,
                  q_index |-> prepared.q_index,
                  current_question_followups |-> prepared.current_question_followups,
                  judge |-> follow.judge, gen |-> follow.gen]
            ELSE Closing(follow, prepared)
        Considered(follow) ==
            IF follow.raised
            THEN [kind |-> "raise", line |-> "", q_index |-> qi,
                  current_question_followups |-> cqf,
                  judge |-> follow.judge, gen |-> follow.gen]
            ELSE IF Truthy(follow.ret)
            THEN [kind |-> "followup", line |-> follow.ret.val, q_index |-> qi,
                  current_question_followups |-> cqf + 1,
                  judge |-> follow.judge, gen |-> follow.gen]
            ELSE Prepared(follow, _next_prepared_question(qs, qi, cqf))
    IN  IF Truthy(conversation_history) /\ cqf < m
        THEN Considered(_generate_followup(conversation_history.val, j, g))
        ELSE Prepared(NoFollowup, _next_prepared_question(qs, qi, cqf))

-----------------------------------------------------------------------------
(* InterviewAgent: construction and the entry points *)

DefaultMaxFollowups == 2

QuestionArgs ==
    { NoneList, Some(<<>>), Some(<<"Q1", "Q2">>), Some(<<"Q1", "">>) }

\* no call is made once the longest session the agent's questions and budget
\* allow is over and ExtraCalls more calls have been made
MaxCalls ==
    Len(questions) * (max_followups_per_question + 1) + 1 + ExtraCalls

\* The caller goes on for at most ExtraCalls calls after the closing line
\* (the command-line loop stops at it, the app keeps its input box open).
CallerGoesOn == calls < MaxCalls /\ after_close < ExtraCalls

\* The list objects a program using the module holds: the module-level
\* QUESTIONS (main.py:19) and one list the caller built, whose items are arg.
ListIds == {"QUESTIONS", "arg"}
Lists(arg) == [id \in ListIds |-> IF id = "QUESTIONS" THEN QUESTIONS ELSE arg]

SessionIds == 1 .. 2
NoSession ==
    [built |-> FALSE, questions |-> "QUESTIONS", q_index |-> 0,
     script |-> <<>>, asked |-> <<>>]

\* nothing outside the one agent is looked at
NoOthers ==
    /\ heap = Lists(<<>>)
    /\ sessions = [s \in SessionIds |-> NoSession]
    /\ edits = 0
    /\ messages = <<>>
    /\ interview_started = FALSE

NoCall ==
    [op |-> "none", history |-> NoneList, passed |-> NoneList,
     judge |-> LlmUnused, gen |-> LlmUnused]
NoRet == [kind |-> "none", line |-> ""]
NoProbe ==
    [fn |-> "none", history |-> <<>>, history_after |-> <<>>, reply |-> "",
     raised |-> FALSE,
     ret_bool |-> FALSE, ret_str |-> NoneStr,
     judge |-> LlmUnused, gen |-> LlmUnused, prompt |-> ""]

Init ==
    /\ pc = "new"
    /\ questions_arg = NoneList
    /\ max_arg = 0
    /\ questions = <<>>
    /\ max_followups_per_question = 0
    /\ q_index = 0
    /\ current_question_followups = 0
    /\ is_started = FALSE
    /\ call = NoCall
    /\ ret = NoRet
    /\ calls = 0
    /\ asked = <<>>
    /\ fu_since = 0
    /\ fu_total = 0
    /\ closed = FALSE
    /\ after_close = 0
    /\ scen = 0
    /\ probe = NoProbe
    /\ NoOthers

\* Variant: a budget of 0 is rejected too.
__init___rejects_zero(qarg, m) ==
    /\ pc = "new"
    /\ IF m <= 0
       THEN /\ pc' = "failed"
            /\ UNCHANGED <<questions, max_followups_per_question, q_index,
                           current_question_followups, is_started>>
       ELSE /\ pc' = "ready"
            /\ questions' = IF Truthy(qarg) THEN qarg.val ELSE QUESTIONS
            /\ max_followups_per_question' = m
            /\ q_index' = 0
            /\ current_question_followups' = 0
            /\ is_started' = FALSE
    /\ questions_arg' = qarg
    /\ max_arg' = m
    /\ UNCHANGED <<observed, probe>>

\* InterviewAgent(questions=qarg, max_followups_per_question=m)
__init__(qarg, m) ==
    /\ pc = "new"
    /\ IF m < 0
       THEN /\ pc' = "failed"                               \* raise ValueError
            /\ UNCHANGED <<questions, max_followups_per_question, q_index,
                           current_question_followups, is_started>>
       ELSE /\ pc' = "ready"
            /\ questions' = IF Truthy(qarg) THEN qarg.val ELSE QUESTIONS
            /\ max_followups_per_question' = m
            /\ q_index' = 0
            /\ current_question_followups' = 0
            /\ is_started' = FALSE
    /\ questions_arg' = qarg
    /\ max_arg' = m
    /\ UNCHANGED <<observed, probe>>

\* Does the call about to be made continue the scenario
\* ["Q1","Q2"], budget 1: no reply; "ok"; "still ok"; "done"; one more call.
\* All calls go through the same entry point.
ScenarioInput(k, op, history) ==
    /\ questions_arg = Some(<<"Q1", "Q2">>)
    /\ max_followups_per_question = 1
    /\ k > 1 => op = call.op
    /\ CASE k = 1 -> ~Truthy(history)
         [] k = 2 -> /\ Truthy(history)
                     /\ history.val[Len(history.val)].content = "ok"
         [] k = 3 -> /\ Truthy(history)
                     /\ history.val[Len(history.val)].content = "still ok"
         [] k = 4 -> /\ Truthy(history)
                     /\ history.val[Len(history.val)].content = "done"
         [] k = 5 -> Truthy(history)
         [] OTHER -> FALSE

\* The llm produces an outcome only when it is called: the outcomes the
\* evaluation call and, after outcome j of it, the generation call can have
\* when agent_turn runs with argument passed.
JudgeAnswers(passed) ==
    IF agent_turn(questions, max_followups_per_question, q_index,
                  current_question_followups, passed, LlmError, LlmError
                 ).judge.status = "unused"
    THEN {LlmUnused} ELSE JudgeOutcomes

GenAnswers(passed, j) ==
    IF agent_turn(questions, max_followups_per_question, q_index,
                  current_question_followups, passed, j, LlmError
                 ).gen.status = "unused"
    THEN {LlmUnused} ELSE SessionGenOutcomes

\* One entry-point call: op is the method called with argument history,
\* passed is the argument with which agent_turn runs.
Turn(op, history, passed, j, g) ==
    \E t \in {agent_turn(questions, max_followups_per_question, q_index,
                        current_question_followups, passed, j, g)} :
        /\ q_index' = t.q_index
        /\ current_question_followups' = t.current_question_followups
        /\ call' = [op |-> op, history |-> history, passed |-> passed,
                    judge |-> t.judge, gen |-> t.gen]
        /\ ret' = [kind |-> t.kind, line |-> t.line]
        /\ calls' = calls + 1
        /\ asked' = IF t.kind = "prepared" THEN Append(asked, t.line) ELSE asked
        /\ fu_since' = CASE t.kind = "prepared" -> 0
                         [] t.kind = "followup" -> fu_since + 1
                         [] OTHER -> fu_since
        /\ fu_total' = IF t.kind = "followup" THEN fu_total + 1 ELSE fu_total
        /\ closed' = (closed \/ t.kind = "closing")
        /\ after_close' = IF closed THEN after_close + 1 ELSE 0
        /\ scen' = IF scen = calls /\ ScenarioInput(calls + 1, op, history)
                   THEN calls + 1 ELSE 0

\* Variant: the history is passed on even on the first interaction.
get_response_always_passes(conversation_history, j, g) ==
    /\ pc = "ready"
    /\ CallerGoesOn
    /\ is_started' = TRUE
    /\ Turn("get_response", Some(conversation_history),
            Some(conversation_history), j, g)
    /\ UNCHANGED <<pc, questions_arg, max_arg, questions,
                   max_followups_per_question, probe>>

\* agent.get_response(conversation_history)
get_response(conversation_history, j, g) ==
    /\ pc = "ready"
    /\ CallerGoesOn
    /\ IF ~is_started
       THEN /\ is_started' = TRUE
            /\ Turn("get_response", Some(conversation_history), NoneList, j, g)
       ELSE /\ is_started' = is_started
            /\ Turn("get_response", Some(conversation_history),
                    Some(conversation_history), j, g)
    /\ UNCHANGED <<pc, questions_arg, max_arg, questions,
                   max_followups_per_question, probe>>

\* agent.agent_turn(conversation_history), called directly
AgentTurn(conversation_history, j, g) ==
    /\ pc = "ready"
    /\ CallerGoesOn
    /\ Turn("agent_turn", conversation_history, conversation_history, j, g)
    /\ UNCHANGED <<pc, questions_arg, max_arg, questions,
                   max_followups_per_question, is_started, probe>>

Construct ==
    /\ \E qarg \in QuestionArgs, m \in -1 .. MaxBudget : __init__(qarg, m)
    /\ UNCHANGED <<refs, app>>

CallGetResponse ==
    /\ \E h \in Histories :
        LET passed == IF is_started THEN Some(h) ELSE NoneList
        IN  \E j \in JudgeAnswers(passed) : \E g \in GenAnswers(passed, j) :
                get_response(h, j, g)
    /\ UNCHANGED <<refs, app>>

\* The caller opens the session without a reply (main.py:211; the input
\* contract of the spec): a history with a candidate reply is passed only
\* once the agent has returned a line.
CallAgentTurn ==
    /\ \E h \in {NoneList} \cup {Some(x) : x \in Histories} :
        /\ Truthy(h) => calls > 0
        /\ \E j \in JudgeAnswers(h) : \E g \in GenAnswers(h, j) :
                AgentTurn(h, j, g)
    /\ UNCHANGED <<refs, app>>

Next == Construct \/ CallGetResponse \/ CallAgentTurn

Spec == Init /\ [][Next]_vars

-----------------------------------------------------------------------------
(* The helpers called directly on a default agent, as the unit tests do.    *)
(* They read no field of the object and write none.                         *)

InitFn ==
    /\ pc = "ready"
    /\ questions_arg = NoneList
    /\ max_arg = DefaultMaxFollowups
    /\ questions = QUESTIONS
    /\ max_followups_per_question = DefaultMaxFollowups
    /\ q_index = 0
    /\ current_question_followups = 0
    /\ is_started = FALSE
    /\ call = NoCall
    /\ ret = NoRet
    /\ calls = 0
    /\ asked = <<>>
    /\ fu_since = 0
    /\ fu_total = 0
    /\ closed = FALSE
    /\ after_close = 0
    /\ scen = 0
    /\ probe = NoProbe
    /\ NoOthers

\* agent._should_ask_followup(r)
Call_should_ask_followup ==
    \E r \in Replies, j \in JudgeOutcomes :
        \E a \in {_should_ask_followup(r, j)} :
            /\ probe' = [NoProbe EXCEPT !.fn = "_should_ask_followup",
                                        !.reply = r,
                                        !.ret_bool = a.ret,
                                        !.judge = a.judge]
            /\ UNCHANGED <<pc, agent, observed, refs, app>>

\* agent._generate_followup_question(h)
Call_generate_followup_question ==
    \E h \in HelperHistories, g \in GenOutcomes :
        \E q \in {_generate_followup_question(h, g)} :
            /\ probe' = [NoProbe EXCEPT !.fn = "_generate_followup_question",
                                        !.history = h,
                                        !.history_after = q.conversation_history,
                                        !.ret_str = Some(q.ret),
                                        !.gen = q.gen,
                                        !.prompt = followup_prompt(h)]
            /\ UNCHANGED <<pc, agent, observed, refs, app>>

\* agent._generate_followup(h)
Call_generate_followup ==
    \E h \in HelperHistories, j \in JudgeOutcomes, g \in GenOutcomes :
        \E f \in {_generate_followup(h, j, g)} :
            /\ probe' = [NoProbe EXCEPT !.fn = "_generate_followup",
                                        !.history = h,
                                        !.history_after = f.conversation_history,
                                        !.raised = f.raised,
                                        !.ret_str = f.ret,
                                        !.judge = f.judge,
                                        !.gen = f.gen,
                                        !.prompt = IF f.gen.status = "unused" THEN ""
                                                   ELSE followup_prompt(h)]
            /\ UNCHANGED <<pc, agent, observed, refs, app>>

NextFn ==
    \/ Call_should_ask_followup
    \/ Call_generate_followup_question
    \/ Call_generate_followup

SpecFn == InitFn /\ [][NextFn]_vars

-----------------------------------------------------------------------------
(* Several agents and the list objects they refer to.  A Python list is an  *)
(* object: an assignment binds a reference to it, and a change made in      *)
(* place is seen through every reference.                                   *)

\* the items of the list the caller passes as questions
CallerQuestions == <<"Q1", "Q2">>

InitRef ==
    /\ pc = "new"
    /\ questions_arg = NoneList
    /\ max_arg = 0
    /\ questions = <<>>
    /\ max_followups_per_question = 0
    /\ q_index = 0
    /\ current_question_followups = 0
    /\ is_started = FALSE
    /\ call = NoCall
    /\ ret = NoRet
    /\ calls = 0
    /\ asked = <<>>
    /\ fu_since = 0
    /\ fu_total = 0
    /\ closed = FALSE
    /\ after_close = 0
    /\ scen = 0
    /\ probe = NoProbe
    /\ heap = Lists(CallerQuestions)
    /\ sessions = [s \in SessionIds |-> NoSession]
    /\ edits = 0
    /\ messages = <<>>
    /\ interview_started = FALSE

\* s = InterviewAgent(questions=qarg): qarg is "None" or the caller's list.
\* self.questions = questions or QUESTIONS binds the object, it copies nothing.
NewInterviewAgent(s, qarg) ==
    /\ ~sessions[s].built
    /\ \E ref \in {IF qarg # "None" /\ Len(heap[qarg]) > 0
                    THEN qarg ELSE "QUESTIONS"} :
           sessions' = [sessions EXCEPT ![s] =
                           [built |-> TRUE, questions |-> ref, q_index |-> 0,
                            script |-> heap[ref], asked |-> <<>>]]
    /\ UNCHANGED <<heap, edits>>

\* s.agent_turn(): without a history the next prepared question is read from
\* the list self.questions refers to, as it is now
SessionTurn(s) ==
    /\ sessions[s].built
    /\ Len(sessions[s].asked) < Len(QUESTIONS)
    /\ \E t \in {agent_turn(heap[sessions[s].questions], DefaultMaxFollowups,
                             sessions[s].q_index, 0, NoneList,
                             LlmUnused, LlmUnused)} :
           /\ t.kind = "prepared"
           /\ sessions' = [sessions EXCEPT ![s].q_index = t.q_index,
                                           ![s].asked = Append(@, t.line)]
    /\ UNCHANGED <<heap, edits>>

\* lst.append("X") on the list object id: by the caller on its own list, on
\* main.QUESTIONS, or through the questions field of an agent that refers to it
ListAppend(id) ==
    /\ edits < MaxEdits
    /\ heap' = [heap EXCEPT ![id] = Append(@, "X")]
    /\ edits' = edits + 1
    /\ UNCHANGED sessions

\* lst[i - 1] = "X" on the list object id
ListSetItem(id, i) ==
    /\ edits < MaxEdits
    /\ i <= Len(heap[id])
    /\ heap' = [heap EXCEPT ![id][i] = "X"]
    /\ edits' = edits + 1
    /\ UNCHANGED sessions

Build ==
    /\ \E s \in SessionIds, qarg \in {"None", "arg"} : NewInterviewAgent(s, qarg)
    /\ UNCHANGED <<pc, agent, observed, probe, app>>

Advance ==
    /\ \E s \in SessionIds : SessionTurn(s)
    /\ UNCHANGED <<pc, agent, observed, probe, app>>

AppendItem ==
    /\ \E id \in ListIds : ListAppend(id)
    /\ UNCHANGED <<pc, agent, observed, probe, app>>

SetItem ==
    /\ \E id \in ListIds, i \in 1 .. 2 : ListSetItem(id, i)
    /\ UNCHANGED <<pc, agent, observed, probe, app>>

NextRef == Build \/ Advance \/ AppendItem \/ SetItem

SpecRef == InitRef /\ [][NextRef]_vars

-----------------------------------------------------------------------------
(* The Streamlit app of src/app.py.  Each interaction runs the script from  *)
(* top to bottom on the session state; a run is taken to reach its end      *)
(* before the next interaction is handled.                                  *)

\* what the candidate types into st.chat_input
Prompts == {"ok", "Twenty characters ok"}

\* the session state after lines 27-34 of the first run: no message, an
\* agent built with default arguments, interview not started
InitApp ==
    /\ pc = "ready"
    /\ questions_arg = NoneList
    /\ max_arg = DefaultMaxFollowups
    /\ questions = QUESTIONS
    /\ max_followups_per_question = DefaultMaxFollowups
    /\ q_index = 0
    /\ current_question_followups = 0
    /\ is_started = FALSE
    /\ call = NoCall
    /\ ret = NoRet
    /\ calls = 0
    /\ asked = <<>>
    /\ fu_since = 0
    /\ fu_total = 0
    /\ closed = FALSE
    /\ after_close = 0
    /\ scen = 0
    /\ probe = NoProbe
    /\ heap = Lists(<<>>)
    /\ sessions = [s \in SessionIds |-> NoSession]
    /\ edits = 0
    /\ messages = <<>>
    /\ interview_started = FALSE

\* if not st.session_state.interview_started: ... (app.py:46-51)
StartInterview ==
    /\ ~interview_started
    /\ get_response(<<>>, LlmUnused, LlmUnused)
    /\ messages' = Append(messages, Msg("assistant", ret'.line))
    /\ interview_started' = TRUE
    /\ UNCHANGED refs

\* Variant: the agent is asked before the candidate's message is appended.
ChatInput_before_append(user_prompt, j, g) ==
    /\ interview_started
    /\ Len(user_prompt) > 0
    /\ Len(messages) < 2 * MaxPrompts
    /\ get_response(messages, j, g)
    /\ messages' = messages \o <<Msg("user", user_prompt),
                                 Msg("assistant", ret'.line)>>
    /\ UNCHANGED <<interview_started, refs>>

\* if user_prompt: ... (app.py:59-69), in a run whose chat input holds
\* user_prompt
ChatInput(user_prompt, j, g) ==
    /\ interview_started
    /\ Len(user_prompt) > 0                                  \* if user_prompt:
    /\ Len(messages) < 2 * MaxPrompts
    /\ get_response(Append(messages, Msg("user", user_prompt)), j, g)
    /\ messages' = messages \o <<Msg("user", user_prompt),
                                 Msg("assistant", ret'.line)>>
    /\ UNCHANGED <<interview_started, refs>>

\* if st.button("Reset Interview"): ... (app.py:99-103); st.rerun() then
\* runs the script again, which starts the new interview
ResetInterview ==
    /\ interview_started
    /\ messages' = <<>>
    /\ questions_arg' = NoneList                      \* InterviewAgent()
    /\ max_arg' = DefaultMaxFollowups
    /\ questions' = QUESTIONS
    /\ max_followups_per_question' = DefaultMaxFollowups
    /\ q_index' = 0
    /\ current_question_followups' = 0
    /\ is_started' = FALSE
    /\ call' = NoCall
    /\ ret' = NoRet
    /\ calls' = 0
    /\ asked' = <<>>
    /\ fu_since' = 0
    /\ fu_total' = 0
    /\ closed' = FALSE
    /\ after_close' = 0
    /\ scen' = 0
    /\ interview_started' = FALSE
    /\ UNCHANGED <<pc, probe, refs>>

SubmitPrompt ==
    \E user_prompt \in Prompts :
        LET passed == Some(Append(messages, Msg("user", user_prompt)))
        IN  \E j \in JudgeAnswers(passed) : \E g \in GenAnswers(passed, j) :
                ChatInput(user_prompt, j, g)

NextApp == StartInterview \/ SubmitPrompt \/ ResetInterview

SpecApp == InitApp /\ [][NextApp]_vars

-----------------------------------------------------------------------------
(* Properties *)

\* the reply agent_turn was given in the last call: the content of the last
\* entry of its conversation_history
GivenReply(c) == c.passed.val[Len(c.passed.val)].content
HasReply(c) == Truthy(c.passed)

\* C1: the number of follow-ups returned since the last prepared question
\* was returned never exceeds max_followups_per_question.
C1_FollowupsWithinBudget ==
    pc = "ready" => fu_since <= max_followups_per_question

C1_Witness ==
    /\ ret.kind = "followup"
    /\ max_followups_per_question >= 2
    /\ fu_since = max_followups_per_question

\* C2 (as claimed): once the closing line has been returned, every later call
\* returns the closing line and leaves q_index and
\* current_question_followups as they were.
C2_ClosingIsIdempotent ==
    [][closed => /\ ret'.kind = "closing"
                 /\ ret'.line = "Thank you for your time! We'll be in touch."
                 /\ q_index' = q_index
                 /\ current_question_followups' = current_question_followups]_vars

\* C3 (as claimed): an agent constructed with questions=[] returns the
\* closing line on its first call and never returns a prepared question.
C3_EmptyListClosesAtOnce ==
    (pc = "ready" /\ questions_arg = Some(<<>>))
        => /\ asked = <<>>
           /\ calls >= 1 => (closed /\ ret.kind = "closing")

\* C4: the first call of a session, made through get_response or through
\* agent_turn without history, returns questions[0], calls neither the judge
\* nor the generator, and leaves q_index = 1, current_question_followups = 0.
C4_FirstCallAsksFirstQuestion ==
    (calls = 1 /\ Len(questions) > 0
       /\ (call.op = "get_response" \/ ~Truthy(call.history)))
        => /\ ret.kind = "prepared"
           /\ ret.line = questions[1]
           /\ call.judge.status = "unused"
           /\ call.gen.status = "unused"
           /\ q_index = 1
           /\ current_question_followups = 0

C4_Witness ==
    /\ calls = 1
    /\ call.op = "get_response"
    /\ Truthy(call.history)
    /\ ret.line = "Q1"

\* C5: the prepared questions returned so far are questions[0 .. q_index-1]
\* in list order, and the closing line is returned only when all of them
\* have been returned.
C5_PreparedInOrder ==
    pc = "ready"
        => /\ asked = SubSeq(questions, 1, q_index)
           /\ closed => (asked = questions /\ q_index = Len(questions))

C5_Witness ==
    /\ closed
    /\ asked = <<"Q1", "Q2">>
    /\ ret.kind = "followup"

C7_ScenarioAsClaimed ==
    /\ scen = 1 => ret.line = "Q1"
    /\ scen = 2 => (ret.kind = "followup" /\ current_question_followups = 1)
    /\ scen = 3 => ret.line = "Q2"
    /\ scen = 4 => (ret.kind = "closing"
                    /\ ret.line = "Thank you for your time! We'll be in touch.")

\* C7 (amended): ... "done", being shorter than 20 characters with the budget
\* reset by "Q2", gets a follow-up (counter 1); the call after it returns the
\* closing line.
C7_Scenario ==
    /\ scen = 1 => (ret.kind = "prepared" /\ ret.line = "Q1")
    /\ scen = 2 => (ret.kind = "followup" /\ call.gen.status # "unused"
                    /\ current_question_followups = 1)
    /\ scen = 3 => (ret.kind = "prepared" /\ ret.line = "Q2"
                    /\ current_question_followups = 0)
    /\ scen = 4 => (ret.kind = "followup" /\ call.gen.status # "unused"
                    /\ current_question_followups = 1)
    /\ scen = 5 => (ret.kind = "closing"
                    /\ ret.line = "Thank you for your time! We'll be in touch.")

C7_Witness ==
    /\ scen = 5
    /\ calls = 5
    /\ closed

C9_JudgeFailureAsksFollowup ==
    [][(/\ calls' = calls + 1
        /\ HasReply(call')
        /\ Len(strip(GivenReply(call'))) >= 20
        /\ current_question_followups < max_followups_per_question
        /\ call'.judge.status = "error")
       => /\ ret'.kind = "followup"
          /\ current_question_followups' = current_question_followups + 1
          /\ q_index' = q_index]_vars

C9_Witness ==
    /\ call.judge.status = "error"
    /\ HasReply(call)
    /\ Len(strip(GivenReply(call))) >= 20
    /\ ret.kind = "followup"
    /\ current_question_followups = 1

\* C10: _generate_followup_question returns the generator's trimmed output
\* when that is not empty, "Can you give me a specific example?" when the
\* output is empty or whitespace, "Could you elaborate on that with more
\* details?" when the call fails; the two fallbacks differ.
C10_FollowupText ==
    probe.fn = "_generate_followup_question"
        => /\ (probe.gen.status = "ok" /\ strip(probe.gen.content) # "")
                  => probe.ret_str = Some(strip(probe.gen.content))
           /\ (probe.gen.status = "ok" /\ probe.gen.content = "  What was the result?\n")
                  => probe.ret_str.val = "What was the result?"
           /\ (probe.gen.status = "ok" /\ probe.gen.content \in {"", "   "})
                  => probe.ret_str.val = "Can you give me a specific example?"
           /\ probe.gen.status = "error"
                  => probe.ret_str.val = "Could you elaborate on that with more details?"
           /\ (probe.gen.status = "ok" /\ strip(probe.gen.content) = "")
                  => probe.ret_str.val # "Could you elaborate on that with more details?"
           /\ probe.gen.status = "error"
                  => probe.ret_str.val # "Can you give me a specific example?"

C10_Witness ==
    /\ probe.fn = "_generate_followup_question"
    /\ probe.gen = LlmText("   ")
    /\ probe.ret_str.val = "Can you give me a specific example?"

\* C11 (as claimed): every line returned by an entry point is a non-empty
\* string, whatever list of strings the agent was given as questions.
C11_LinesNonEmpty ==
    (calls >= 1 /\ ret.kind # "raise") => Len(ret.line) > 0

\* C12: construction succeeds exactly for max_followups_per_question >= 0;
\* for a negative value it raises and no agent state is produced.
C12_ConstructionChecksBudget ==
    pc # "new"
        => /\ pc = "ready" <=> max_arg >= 0
           /\ pc = "failed" <=> max_arg < 0
           /\ pc = "ready" => (/\ max_followups_per_question = max_arg
                               /\ Len(questions) > 0)
           /\ pc = "failed" => (/\ questions = <<>>
                                /\ calls = 0
                                /\ ret.kind = "none")

C12_Witness ==
    /\ pc = "failed"
    /\ max_arg = -1
    /\ questions_arg = Some(<<"Q1", "Q2">>)

\* C13 (as claimed): a session of the agent built with default arguments
\* returns the 5 prepared questions and at most 3 follow-ups in total.
C13_DefaultSessionFollowups ==
    (pc = "ready" /\ questions_arg = NoneList /\ max_arg = 2)
        => /\ fu_total <= 3
           /\ Len(asked) <= 5
           /\ closed => Len(asked) = 5

\* C14 (as claimed): _generate_followup with an empty conversation history
\* returns None and does not fail.
C14_NoHistoryReturnsNone ==
    (probe.fn = "_generate_followup" /\ probe.history = <<>>)
        => /\ ~probe.raised
           /\ probe.ret_str.is_none

\* C15: for a reply of 20 or more trimmed characters on which the judge call
\* succeeds, _should_ask_followup returns true exactly when the judge's text
\* is YES once trimmed and compared without regard to case.
C15_VerdictIsYes ==
    (/\ probe.fn = "_should_ask_followup"
     /\ Len(strip(probe.reply)) >= 20
     /\ probe.judge.status = "ok")
        => (probe.ret_bool <=> probe.judge.content \in {"YES", " yes\n"})

C15_Witness ==
    /\ probe.fn = "_should_ask_followup"
    /\ probe.reply = "Twenty characters ok"
    /\ probe.judge = LlmText(" yes\n")
    /\ probe.ret_bool

\* C16: 0 <= q_index <= len(questions) in every state, and q_index never
\* decreases.
C16_QIndexInRangeAndMonotone ==
    /\ [](0 <= q_index /\ q_index <= Len(questions))
    /\ [][q_index' >= q_index]_vars

C16_Witness ==
    /\ closed
    /\ q_index = Len(questions)
    /\ q_index = 5
    /\ ret.kind = "closing"
    /\ calls > q_index + 1

\* C17: 0 <= current_question_followups <= max_followups_per_question, the
\* counter is the number of follow-ups returned since the last prepared
\* question was returned, and it is 0 right after a call that returned a
\* prepared question.
C17_CounterCountsFollowups ==
    pc = "ready"
        => /\ 0 <= current_question_followups
           /\ current_question_followups <= max_followups_per_question
           /\ current_question_followups = fu_since
           /\ ret.kind = "prepared" => current_question_followups = 0

C17_Witness ==
    /\ ret.kind = "prepared"
    /\ Len(asked) >= 2
    /\ fu_total >= 2
    /\ HasReply(call)
    /\ current_question_followups = 0

\* C18: a call does exactly one of: return a follow-up, adding 1 to
\* current_question_followups with q_index unchanged; return a prepared
\* question, adding 1 to q_index and setting current_question_followups to 0;
\* return the closing line with both unchanged.  It changes neither questions
\* nor max_followups_per_question.
C18_OneStepPerCall ==
    [][calls' = calls + 1
       => /\ questions' = questions
          /\ max_followups_per_question' = max_followups_per_question
          /\ \/ /\ ret'.kind = "followup"
                /\ current_question_followups' = current_question_followups + 1
                /\ q_index' = q_index
             \/ /\ ret'.kind = "prepared"
                /\ q_index' = q_index + 1
                /\ current_question_followups' = 0
             \/ /\ ret'.kind = "closing"
                /\ q_index' = q_index
                /\ current_question_followups' = current_question_followups]_vars

C18_Witness ==
    /\ ret.kind = "followup"
    /\ current_question_followups = 2
    /\ q_index = 3
    /\ call.op = "agent_turn"

\* C19: when the judge is consulted and its verdict is not YES, the call
\* returns no follow-up and does not call the generator: it returns the next
\* prepared question, resetting the counter, if one is left, and the closing
\* line otherwise.
C19_NoFollowupWithoutYes ==
    [][(/\ calls' = calls + 1
        /\ HasReply(call')
        /\ Len(strip(GivenReply(call'))) >= 20
        /\ call'.judge.status = "ok"
        /\ call'.judge.content \notin {"YES", " yes\n"})
       => /\ call'.gen.status = "unused"
          /\ IF q_index < Len(questions)
             THEN /\ ret'.kind = "prepared"
                  /\ ret'.line = questions[q_index + 1]
                  /\ q_index' = q_index + 1
                  /\ current_question_followups' = 0
             ELSE /\ ret'.kind = "closing"
                  /\ ret'.line = "Thank you for your time! We'll be in touch."
                  /\ q_index' = q_index
                  /\ current_question_followups' = current_question_followups]_vars

C19_Witness ==
    /\ call.judge = LlmText("Maybe")
    /\ call.gen.status = "unused"
    /\ ret.kind = "prepared"
    /\ fu_total >= 1
    /\ current_question_followups = 0

\* C20: with the budget used up, or without a history, agent_turn calls
\* neither the judge nor the generator and returns the next prepared question
\* (the closing line if none is left); the generator is called only after a
\* follow-up decision of true.
C20_LlmCallsOnlyWhenConsidered ==
    [][calls' = calls + 1
       => /\ (\/ current_question_followups = max_followups_per_question
              \/ ~Truthy(call'.passed))
             => /\ call'.judge.status = "unused"
                /\ call'.gen.status = "unused"
                /\ IF q_index < Len(questions)
                   THEN ret'.kind = "prepared" /\ ret'.line = questions[q_index + 1]
                   ELSE ret'.kind = "closing"
          /\ call'.gen.status # "unused"
             => /\ HasReply(call')
                /\ current_question_followups < max_followups_per_question
                /\ \/ Len(strip(GivenReply(call'))) < 20
                   \/ call'.judge.status = "error"
                   \/ call'.judge.content \in {"YES", " yes\n"}]_vars

C20_Witness ==
    /\ HasReply(call)
    /\ GivenReply(call) = "ok"
    /\ call.judge.status = "unused"
    /\ call.gen.status = "unused"
    /\ ret.kind = "prepared"
    /\ fu_since = 0
    /\ fu_total = max_followups_per_question
    /\ max_followups_per_question >= 1

\* C21 (as claimed): is_started is false as long as the agent has returned no
\* line and true once it has returned one, through get_response or through
\* agent_turn, and it never goes back to false.
C21_StartedOnceALineIsProduced ==
    /\ [](pc = "ready" => (is_started <=> calls > 0))
    /\ [][is_started => is_started']_vars

\* C22 (as claimed): the prepared questions an agent returns are the first
\* items of its question list as it was at construction, whatever is done
\* later to the caller's list, to QUESTIONS or through another agent; and no
\* two agents refer to the same list object.
C22_ScriptFixedAtConstruction ==
    /\ \A s \in SessionIds :
           sessions[s].built
           => /\ Len(sessions[s].asked) <= Len(sessions[s].script)
              /\ sessions[s].asked
                    = SubSeq(sessions[s].script, 1, Len(sessions[s].asked))
    /\ \A s, t \in SessionIds :
           s # t /\ sessions[s].built /\ sessions[t].built
           => sessions[s].questions # sessions[t].questions

\* C23: in the app, between two resets the message list only grows at its
\* end; it alternates assistant, user, assistant, ... and starts with the first
\* prepared question; and every get_response call after the first gets the
\* whole list up to the candidate's latest message, on which agent_turn then
\* runs, and its answer is the message appended next.
C23_AppHistory ==
    /\ [](/\ \A i \in 1 .. Len(messages) :
                messages[i].role = IF i % 2 = 1 THEN "assistant" ELSE "user"
          /\ Len(messages) > 0 => messages[1] = Msg("assistant", QUESTIONS[1])
          /\ calls > 1
             => /\ call.op = "get_response"
                /\ call.history = Some(SubSeq(messages, 1, Len(messages) - 1))
                /\ call.passed = call.history
                /\ messages[Len(messages) - 1].role = "user"
                /\ GivenReply(call) = messages[Len(messages) - 1].content
                /\ messages[Len(messages)].content = ret.line)
    /\ [][\/ interview_started /\ ~interview_started'
          \/ /\ Len(messages') >= Len(messages)
             /\ SubSeq(messages', 1, Len(messages)) = messages]_vars

C23_Witness ==
    /\ Len(messages) = 2 * MaxPrompts + 1
    /\ messages[2].content = "Twenty characters ok"
    /\ messages[Len(messages) - 1].content = "ok"
    /\ ret.kind = "followup"
    /\ fu_total >= 2

\* C24: the message sent to the follow-up generator holds the last
\* min(4, len) entries of the history it was called with, oldest first, each
\* on a line "Interviewer: ..." for role assistant and "Candidate: ..." for
\* any other role; and the call leaves the history as it was given.
C24_GeneratorContext ==
    LET Line(m) ==
            (IF m.role = "assistant" THEN "Interviewer" ELSE "Candidate")
            \o ": " \o m.content \o "\n"
        Context(h, k) ==
            LET Entry(i) == IF i <= k THEN Line(h[Len(h) - k + i]) ELSE ""
            IN  Entry(1) \o Entry(2) \o Entry(3) \o Entry(4)
    IN  /\ probe.fn \in {"_generate_followup_question", "_generate_followup"}
           => probe.history_after = probe.history
        /\ probe.gen.status # "unused"
           => probe.prompt
                = "Recent conversation:\n"
                  \o Context(probe.history,
                             IF Len(probe.history) < 4 THEN Len(probe.history)
                             ELSE 4)
                  \o "\n\nWhat follow-up question should I ask?"

C24_Witness ==
    /\ probe.fn = "_generate_followup"
    /\ Len(probe.history) = MaxHistory
    /\ probe.history[Len(probe.history)].content = "ok"
    /\ probe.gen = LlmText("What specific challenges did you face?")
    /\ probe.history_after = probe.history

====
